---- MODULE Spec2Model ----
(***************************************************************************)
(* A model of analyze/util/diff2HtmlCompare.py: the construction of a      *)
(* CodeDiff from two files (or two text blobs), the line alignment of      *)
(* getDiffDetails (tab expansion followed by difflib._mdiff), the          *)
(* per-side rendering of DiffHtmlFormatter (getDiffLineNos, _wrap_code)    *)
(* and the asset loading and writing of generateDiff2Html.                 *)
(*                                                                         *)
(* A Python str is a sequence of one-character strings.  HTML literals of  *)
(* the source are kept as single multi-character elements, so that string  *)
(* concatenation is sequence concatenation.                                *)
(***************************************************************************)
EXTENDS Integers, Sequences, FiniteSets, TLC

\* ------------------------------------------------------------ characters
NUL == "NUL"   \* '\0'
SOH == "SOH"   \* '\1'
SP == " "
TAB == "\t"
NL == "\n"
CR == "\r"
FF == "\f"

\* the characters c with c.isspace(): '\t', '\n', '\v', '\f', '\r',
\* '\x1c'..'\x1f', ' ', '\x85', '\xa0' and the other Unicode spaces; those
\* without an escape are named by their code point
WhiteSpace ==
    {TAB, NL, "U+000B", FF, CR, "U+001C", "U+001D", "U+001E", "U+001F", SP,
     "U+0085", "U+00A0", "U+1680", "U+2000", "U+2001", "U+2002", "U+2003",
     "U+2004", "U+2005", "U+2006", "U+2007", "U+2008", "U+2009", "U+200A",
     "U+2028", "U+2029", "U+202F", "U+205F", "U+3000"}

\* tabSize=8, the default of getDiffDetails used by format
TabSize == 8

Min(x, y) == IF x <= y THEN x ELSE y

Rep(c, n) == [k \in 1..n |-> c]

\* str.replace(old, new) for one-character old and new
Replace(s, old, new) == [k \in 1..Len(s) |-> IF s[k] = old THEN new ELSE s[k]]

\* str.expandtabs(tabsize): the column restarts after '\n' and '\r'
RECURSIVE ExpandTabsFrom(_, _, _, _)
ExpandTabsFrom(s, i, col, tabsize) ==
    IF i > Len(s) THEN <<>>
    ELSE IF s[i] = TAB
         THEN IF tabsize > 0
              THEN LET incr == tabsize - (col % tabsize)
                   IN  Rep(SP, incr) \o ExpandTabsFrom(s, i + 1, col + incr, tabsize)
              ELSE ExpandTabsFrom(s, i + 1, col, tabsize)
         ELSE <<s[i]>> \o ExpandTabsFrom(s, i + 1,
                              IF s[i] \in {NL, CR} THEN 0 ELSE col + 1, tabsize)

ExpandTabs(s, tabsize) == ExpandTabsFrom(s, 1, 0, tabsize)

\* str.rstrip('\n')
RECURSIVE RStripNL(_)
RStripNL(s) ==
    IF s # <<>> /\ s[Len(s)] = NL THEN RStripNL(SubSeq(s, 1, Len(s) - 1)) ELSE s

\* a plausible slip: real spaces are not shielded before the expansion
expand_tabs_unshielded(line) ==
    RStripNL(Replace(Replace(ExpandTabs(line, TabSize), SP, TAB), NUL, SP))

\* CodeDiff.getDiffDetails.expand_tabs
expand_tabs(line) ==
    LET hidden   == Replace(line, SP, NUL)
        expanded == ExpandTabs(hidden, TabSize)
        tabbed   == Replace(expanded, SP, TAB)
    IN  RStripNL(Replace(tabbed, NUL, SP))

\* ------------------------------------------------ difflib.SequenceMatcher
\* Indices are Python's (0-based, half-open ranges); element i of a Python
\* sequence x is x[i + 1] here.

\* IS_CHARACTER_JUNK(ch, ws=" \t")
IS_CHARACTER_JUNK(ch) == ch \in {SP, TAB}

\* the junk test of a SequenceMatcher: isjunk is None for lines
IsJunk(elt, charjunk) == charjunk /\ IS_CHARACTER_JUNK(elt)

\* the two pairs of extension loops of find_longest_match: grow the match
\* <<besti, bestj, bestsize>> backwards while the elements before it are equal
\* and b's element is junk (junk = TRUE) or is not junk (junk = FALSE)
RECURSIVE ExtendBack(_, _, _, _, _, _, _)
ExtendBack(a, b, charjunk, junk, alo, blo, m) ==
    IF /\ m[1] > alo /\ m[2] > blo
       /\ IsJunk(b[m[2]], charjunk) = junk
       /\ a[m[1]] = b[m[2]]
    THEN ExtendBack(a, b, charjunk, junk, alo, blo, <<m[1] - 1, m[2] - 1, m[3] + 1>>)
    ELSE m

\* ... and forwards
RECURSIVE ExtendFwd(_, _, _, _, _, _, _)
ExtendFwd(a, b, charjunk, junk, ahi, bhi, m) ==
    IF /\ m[1] + m[3] < ahi /\ m[2] + m[3] < bhi
       /\ IsJunk(b[m[2] + m[3] + 1], charjunk) = junk
       /\ a[m[1] + m[3] + 1] = b[m[2] + m[3] + 1]
    THEN ExtendFwd(a, b, charjunk, junk, ahi, bhi, <<m[1], m[2], m[3] + 1>>)
    ELSE m

\* the autojunk heuristic of SequenceMatcher.__chain_b (autojunk is True):
\* when b has 200 elements or more, an element that occurs more than
\* len(b) // 100 + 1 times in b is popular
IsPopular(b, elt) ==
    /\ Len(b) >= 200
    /\ Cardinality({k \in 1..Len(b) : b[k] = elt}) > (Len(b) \div 100) + 1

\* elt in b2j: __chain_b drops the junk elements and then the popular ones
InB2J(b, elt, charjunk) == ~IsJunk(elt, charjunk) /\ ~IsPopular(b, elt)

\* one turn of the outer loop of find_longest_match, for element i of a:
\* newj2len, given j2len of the turn before
NewJ2Len(a, b, charjunk, blo, bhi, i, j2len) ==
    [j \in blo..(bhi - 1) |->
        IF a[i + 1] = b[j + 1] /\ InB2J(b, b[j + 1], charjunk)
        THEN (IF j - 1 >= blo THEN j2len[j - 1] ELSE 0) + 1
        ELSE 0]

\* the first j of the row that holds k: in the inner loop (j ascending) k
\* exceeds bestsize for the last time there
FirstAt(row, k) ==
    CHOOSE x \in DOMAIN row : row[x] = k /\ \A y \in DOMAIN row : row[y] = k => x <= y

RowMax(row) ==
    IF DOMAIN row = {} THEN 0
    ELSE CHOOSE k \in {row[x] : x \in DOMAIN row} : \A y \in DOMAIN row : row[y] <= k

\* the outer loop of find_longest_match from element i of a on; LongestScanRow
\* is the end of its turn i, row the new j2len and top its greatest k
RECURSIVE LongestScan(_, _, _, _, _, _, _, _, _)
RECURSIVE LongestScanRow(_, _, _, _, _, _, _, _, _, _)
LongestScan(a, b, charjunk, ahi, blo, bhi, i, j2len, best) ==
    IF i >= ahi THEN best
    ELSE LongestScanRow(a, b, charjunk, ahi, blo, bhi, i,
                        NewJ2Len(a, b, charjunk, blo, bhi, i, j2len),
                        RowMax(NewJ2Len(a, b, charjunk, blo, bhi, i, j2len)), best)

LongestScanRow(a, b, charjunk, ahi, blo, bhi, i, row, top, best) ==
    IF top > best[3]
    THEN LongestScan(a, b, charjunk, ahi, blo, bhi, i + 1, row,
                     <<i - top + 1, FirstAt(row, top) - top + 1, top>>)
    ELSE LongestScan(a, b, charjunk, ahi, blo, bhi, i + 1, row, best)

\* SequenceMatcher.find_longest_match: <<besti, bestj, bestsize>>
find_longest_match(a, b, charjunk, alo, ahi, blo, bhi) ==
    ExtendFwd(a, b, charjunk, TRUE, ahi, bhi,
      ExtendBack(a, b, charjunk, TRUE, alo, blo,
        ExtendFwd(a, b, charjunk, FALSE, ahi, bhi,
          ExtendBack(a, b, charjunk, FALSE, alo, blo,
            LongestScan(a, b, charjunk, ahi, blo, bhi, alo,
                        [j \in blo..(bhi - 1) |-> 0], <<alo, blo, 0>>)))))

\* the queue loop of get_matching_blocks followed by its sort: the blocks left
\* of a match x precede it and the blocks right of it follow it
RECURSIVE MatchingBlocksIn(_, _, _, _, _, _, _)
MatchingBlocksAround(a, b, charjunk, alo, ahi, blo, bhi, x) ==
    IF x[3] = 0 THEN <<>>
    ELSE (IF alo < x[1] /\ blo < x[2]
          THEN MatchingBlocksIn(a, b, charjunk, alo, x[1], blo, x[2]) ELSE <<>>)
         \o <<x>>
         \o (IF x[1] + x[3] < ahi /\ x[2] + x[3] < bhi
             THEN MatchingBlocksIn(a, b, charjunk, x[1] + x[3], ahi, x[2] + x[3], bhi)
             ELSE <<>>)

MatchingBlocksIn(a, b, charjunk, alo, ahi, blo, bhi) ==
    MatchingBlocksAround(a, b, charjunk, alo, ahi, blo, bhi,
                         find_longest_match(a, b, charjunk, alo, ahi, blo, bhi))

\* the loop of get_matching_blocks that collapses adjacent blocks; cur is
\* (i1, j1, k1)
RECURSIVE NonAdjacent(_, _, _)
NonAdjacent(blocks, n, cur) ==
    IF n > Len(blocks)
    THEN IF cur[3] # 0 THEN <<cur>> ELSE <<>>
    ELSE LET x == blocks[n]
         IN  IF cur[1] + cur[3] = x[1] /\ cur[2] + cur[3] = x[2]
             THEN NonAdjacent(blocks, n + 1, <<cur[1], cur[2], cur[3] + x[3]>>)
             ELSE (IF cur[3] # 0 THEN <<cur>> ELSE <<>>)
                  \o NonAdjacent(blocks, n + 1, x)

\* SequenceMatcher.get_matching_blocks
get_matching_blocks(a, b, charjunk) ==
    NonAdjacent(MatchingBlocksIn(a, b, charjunk, 0, Len(a), 0, Len(b)), 1, <<0, 0, 0>>)
        \o << <<Len(a), Len(b), 0>> >>

\* the loop of get_opcodes over the matching blocks; an opcode is
\* <<tag, i1, i2, j1, j2>>
RECURSIVE OpcodesFrom(_, _, _, _)
OpcodesFrom(blocks, n, i, j) ==
    IF n > Len(blocks) THEN <<>>
    ELSE LET ai   == blocks[n][1]
             bj   == blocks[n][2]
             size == blocks[n][3]
             tag  == IF i < ai /\ j < bj THEN "replace"
                     ELSE IF i < ai THEN "delete"
                     ELSE IF j < bj THEN "insert"
                     ELSE ""
         IN  (IF tag # "" THEN << <<tag, i, ai, j, bj>> >> ELSE <<>>)
             \o (IF size # 0 THEN << <<"equal", ai, ai + size, bj, bj + size>> >> ELSE <<>>)
             \o OpcodesFrom(blocks, n + 1, ai + size, bj + size)

\* SequenceMatcher.get_opcodes
get_opcodes(a, b, charjunk) == OpcodesFrom(get_matching_blocks(a, b, charjunk), 1, 0, 0)

\* a ratio is the fraction <<numerator, denominator>>
\* _calculate_ratio(matches, length)
calculate_ratio(matches, length) ==
    IF length # 0 THEN <<2 * matches, length>> ELSE <<1, 1>>

RatioGreater(r, s) == r[1] * s[2] > s[1] * r[2]

RECURSIVE SumSizes(_, _)
SumSizes(blocks, n) ==
    IF n > Len(blocks) THEN 0 ELSE blocks[n][3] + SumSizes(blocks, n + 1)

\* SequenceMatcher.ratio
ratio(a, b, charjunk) ==
    calculate_ratio(SumSizes(get_matching_blocks(a, b, charjunk), 1), Len(a) + Len(b))

\* SequenceMatcher.quick_ratio: element i of a counts while b still has an
\* occurrence of it available
quick_ratio(a, b) ==
    LET counted == {i \in 1..Len(a) :
                      Cardinality({k \in 1..i : a[k] = a[i]})
                        <= Cardinality({k \in 1..Len(b) : b[k] = a[i]})}
    IN  calculate_ratio(Cardinality(counted), Len(a) + Len(b))

\* SequenceMatcher.real_quick_ratio
real_quick_ratio(a, b) == calculate_ratio(Min(Len(a), Len(b)), Len(a) + Len(b))

\* ---------------------------------------------------------- difflib.Differ
\* A line of the delta is the two-character prefix ("- ", "+ ", "  " or "? ")
\* followed by the text.

\* str.isspace() of one character
IsSpace(c) == c \in WhiteSpace

\* str.rstrip()
RECURSIVE RStrip(_)
RStrip(s) ==
    IF s # <<>> /\ IsSpace(s[Len(s)]) THEN RStrip(SubSeq(s, 1, Len(s) - 1)) ELSE s

\* Differ._dump
dump(tag, x, lo, hi) == [k \in 1..(hi - lo) |-> <<tag, SP>> \o x[lo + k]]

\* Differ._plain_replace
plain_replace(a, alo, ahi, b, blo, bhi) ==
    IF bhi - blo < ahi - alo
    THEN dump("+", b, blo, bhi) \o dump("-", a, alo, ahi)
    ELSE dump("-", a, alo, ahi) \o dump("+", b, blo, bhi)

\* _keep_original_ws
keep_original_ws(s, tag_s) ==
    [k \in 1..Min(Len(s), Len(tag_s)) |->
        IF tag_s[k] = SP /\ IsSpace(s[k]) THEN s[k] ELSE tag_s[k]]

\* Differ._qformat
qformat(aline, bline, atags, btags) ==
    LET at == RStrip(keep_original_ws(aline, atags))
        bt == RStrip(keep_original_ws(bline, btags))
    IN  << <<"-", SP>> \o aline >>
        \o (IF at # <<>> THEN << <<"?", SP>> \o at \o <<NL>> >> ELSE <<>>)
        \o << <<"+", SP>> \o bline >>
        \o (IF bt # <<>> THEN << <<"?", SP>> \o bt \o <<NL>> >> ELSE <<>>)

\* the loop of _fancy_replace that builds atags (side = 1) and btags
\* (side = 2) from the opcodes of the two lines
RECURSIVE IntralineTags(_, _, _)
IntralineTags(ops, n, side) ==
    IF n > Len(ops) THEN <<>>
    ELSE LET tag == ops[n][1]
             la  == ops[n][3] - ops[n][2]
             lb  == ops[n][5] - ops[n][4]
             here == IF tag = "replace" THEN Rep("^", IF side = 1 THEN la ELSE lb)
                     ELSE IF tag = "delete" THEN (IF side = 1 THEN Rep("-", la) ELSE <<>>)
                     ELSE IF tag = "insert" THEN (IF side = 1 THEN <<>> ELSE Rep("+", lb))
                     ELSE Rep(SP, IF side = 1 THEN la ELSE lb)
         IN  here \o IntralineTags(ops, n + 1, side)

\* None, for an index
None == -1

\* the search loop of _fancy_replace: FancyColumn is the inner loop (for i)
\* of the turn j from line i on, FancyBetter its three ratio tests and the
\* assignment after them (r is cruncher.ratio()), FancySearch the state after
\* the turns blo..j-1 of the outer loop; st holds best_ratio, best_i, best_j,
\* eqi, eqj
RECURSIVE FancyColumn(_, _, _, _, _, _, _)
RECURSIVE FancyBetter(_, _, _, _, _, _, _, _)
FancyColumn(a, alo, ahi, b, j, i, st) ==
    IF i >= ahi THEN st
    ELSE IF a[i + 1] = b[j + 1]
    THEN IF st.eqi = None
         THEN FancyColumn(a, alo, ahi, b, j, i + 1, [st EXCEPT !.eqi = i, !.eqj = j])
         ELSE FancyColumn(a, alo, ahi, b, j, i + 1, st)
    ELSE FancyBetter(a, alo, ahi, b, j, i, st, ratio(a[i + 1], b[j + 1], TRUE))

FancyBetter(a, alo, ahi, b, j, i, st, r) ==
    IF /\ RatioGreater(real_quick_ratio(a[i + 1], b[j + 1]), st.best_ratio)
       /\ RatioGreater(quick_ratio(a[i + 1], b[j + 1]), st.best_ratio)
       /\ RatioGreater(r, st.best_ratio)
    THEN FancyColumn(a, alo, ahi, b, j, i + 1,
                     [st EXCEPT !.best_ratio = r, !.best_i = i, !.best_j = j])
    ELSE FancyColumn(a, alo, ahi, b, j, i + 1, st)

RECURSIVE FancySearch(_, _, _, _, _, _)
FancySearch(a, alo, ahi, b, blo, j) ==
    IF j <= blo
    THEN [best_ratio |-> <<74, 100>>, best_i |-> None, best_j |-> None,
          eqi |-> None, eqj |-> None]
    ELSE FancyColumn(a, alo, ahi, b, j - 1, alo, FancySearch(a, alo, ahi, b, blo, j - 1))

\* the intraline marking of the synch pair: atags and btags from the opcodes
\* of the two lines, then _qformat
QFormatOps(aelt, belt, ops) ==
    qformat(aelt, belt, IntralineTags(ops, 1, 1), IntralineTags(ops, 1, 2))

\* Differ._fancy_replace and Differ._fancy_helper; FancySynch is
\* _fancy_replace after its search loop has left st
RECURSIVE fancy_replace(_, _, _, _, _, _)
RECURSIVE fancy_helper(_, _, _, _, _, _)
FancySynch(a, alo, ahi, b, blo, bhi, st) ==
    IF RatioGreater(<<75, 100>>, st.best_ratio)            \* best_ratio < cutoff
    THEN IF st.eqi = None
         THEN plain_replace(a, alo, ahi, b, blo, bhi)
         ELSE fancy_helper(a, alo, st.eqi, b, blo, st.eqj)
              \o << <<SP, SP>> \o a[st.eqi + 1] >>
              \o fancy_helper(a, st.eqi + 1, ahi, b, st.eqj + 1, bhi)
    ELSE fancy_helper(a, alo, st.best_i, b, blo, st.best_j)
         \o QFormatOps(a[st.best_i + 1], b[st.best_j + 1],
                       get_opcodes(a[st.best_i + 1], b[st.best_j + 1], TRUE))
         \o fancy_helper(a, st.best_i + 1, ahi, b, st.best_j + 1, bhi)

fancy_replace(a, alo, ahi, b, blo, bhi) ==
    FancySynch(a, alo, ahi, b, blo, bhi, FancySearch(a, alo, ahi, b, blo, bhi))

fancy_helper(a, alo, ahi, b, blo, bhi) ==
    IF alo < ahi
    THEN IF blo < bhi
         THEN fancy_replace(a, alo, ahi, b, blo, bhi)
         ELSE dump("-", a, alo, ahi)
    ELSE IF blo < bhi
         THEN dump("+", b, blo, bhi)
         ELSE <<>>

\* the loop of Differ.compare over the opcodes of the two line sequences
RECURSIVE CompareFrom(_, _, _, _)
CompareFrom(a, b, ops, n) ==
    IF n > Len(ops) THEN <<>>
    ELSE LET tag == ops[n][1]
             alo == ops[n][2]
             ahi == ops[n][3]
             blo == ops[n][4]
             bhi == ops[n][5]
             g == IF tag = "replace" THEN fancy_replace(a, alo, ahi, b, blo, bhi)
                  ELSE IF tag = "delete" THEN dump("-", a, alo, ahi)
                  ELSE IF tag = "insert" THEN dump("+", b, blo, bhi)
                  ELSE dump(SP, a, alo, ahi)
         IN  g \o CompareFrom(a, b, ops, n + 1)

\* ndiff(a, b, linejunk=None, charjunk=IS_CHARACTER_JUNK)
ndiff(a, b) == CompareFrom(a, b, get_opcodes(a, b, FALSE), 1)

\* ----------------------------------------------------------- difflib._mdiff
\* A line of a pair is <<line number, text>>.  _mdiff gives the side that has
\* no line the number '' (a str, not an int), which NoLineNumber stands for;
\* the line numbers of a file start at 1.
NoLineNumber == 0

\* Python's s[lo:hi] for 0 <= lo
Slice(s, lo, hi) == SubSeq(s, lo + 1, Min(hi, Len(s)))

\* the matches of change_re = (\++|\-+|\^+) in the markers line from offset k
\* on: each is <<key, begin, end>>
RECURSIVE RunEnd(_, _)
RunEnd(markers, k) ==
    IF k + 1 < Len(markers) /\ markers[k + 2] = markers[k + 1]
    THEN RunEnd(markers, k + 1) ELSE k + 1

RECURSIVE SubInfo(_, _)
SubInfo(markers, k) ==
    IF k >= Len(markers) THEN <<>>
    ELSE IF markers[k + 1] \in {"+", "-", "^"}
         THEN << <<markers[k + 1], k, RunEnd(markers, k)>> >>
              \o SubInfo(markers, RunEnd(markers, k))
         ELSE SubInfo(markers, k + 1)

\* the loop of _make_line over reversed(sub_info), from its n-th element down
RECURSIVE MarkText(_, _, _)
MarkText(text, info, n) ==
    IF n = 0 THEN text
    ELSE LET key   == info[n][1]
             begin == info[n][2]
             end   == info[n][3]
         IN  MarkText(Slice(text, 0, begin) \o <<NUL, key>> \o Slice(text, begin, end)
                        \o <<SOH>> \o Slice(text, end, Len(text)),
                      info, n - 1)

\* _make_line(lines, '?', side): the line and the markers line after it
MakeMarkedLine(line, markers, num) ==
    LET info == SubInfo(markers, 0)
        text == MarkText(line, info, Len(info))
    IN  <<num, Slice(text, 2, Len(text))>>

\* a plausible slip: the line numbers start at 0
MakePlainLineZeroBased(line, num) == <<num - 1, Slice(line, 2, Len(line))>>

\* _make_line(lines, None, side)
MakePlainLine(line, num) == <<num, Slice(line, 2, Len(line))>>

\* a plausible slip: the line of a pure insertion or deletion loses its number
MakeKeyedLineUnnumbered(line, format_key, num) ==
    LET text == Slice(line, 2, Len(line))
    IN  <<NoLineNumber,
          <<NUL, format_key>> \o (IF text = <<>> THEN <<SP>> ELSE text) \o <<SOH>> >>

\* _make_line(lines, '-', side) and _make_line(lines, '+', side)
MakeKeyedLine(line, format_key, num) ==
    LET text == Slice(line, 2, Len(line))
    IN  <<num, <<NUL, format_key>> \o (IF text = <<>> THEN <<SP>> ELSE text) \o <<SOH>> >>

\* s of _line_iterator: the first characters of the next four lines of the
\* delta, 'X' standing for each line past its end
TagsAt(delta, p) ==
    [k \in 1..4 |-> IF p + k - 1 > Len(delta) THEN "X" ELSE delta[p + k - 1][1]]

StartsWith(s, prefix) ==
    Len(prefix) <= Len(s) /\ \A k \in 1..Len(prefix) : s[k] = prefix[k]

\* a plausible slip: the pending blank lines are never yielded
BlankLinesNone(num_blanks_to_yield) == <<>>

\* a plausible slip: a pending blank line is yielded on both sides at once
BlankLinesOnBothSides(num_blanks_to_yield) ==
    [k \in 1..(IF num_blanks_to_yield < 0 THEN 0 - num_blanks_to_yield
                                          ELSE num_blanks_to_yield) |->
        << << <<NoLineNumber, <<NL>> >> >>, << <<NoLineNumber, <<NL>> >> >>, TRUE >>]

\* the two loops of _line_iterator that yield the pending blank lines; a
\* yielded triple is <<from_line, to_line, flag>> with None as <<>> and a line
\* as a one-element sequence
BlankLines(num_blanks_to_yield) ==
    IF num_blanks_to_yield < 0
    THEN [k \in 1..(0 - num_blanks_to_yield) |->
            << <<>>, << <<NoLineNumber, <<NL>> >> >>, TRUE >>]
    ELSE [k \in 1..num_blanks_to_yield |->
            << << <<NoLineNumber, <<NL>> >> >>, <<>>, TRUE >>]

\* _mdiff._line_iterator from line p of the delta on; nf and nt are
\* num_lines[0] and num_lines[1], pending is num_blanks_pending
RECURSIVE line_iterator(_, _, _, _, _)
line_iterator(delta, p, nf, nt, pending) ==
    LET s == TagsAt(delta, p)
        starts(str) == StartsWith(s, str)
        cur == delta[p]
    IN  IF starts(<<"X">>)
        THEN BlankLines(pending)
        ELSE IF starts(<<"-", "?", "+", "?">>)
        THEN << << <<MakeMarkedLine(cur, delta[p + 1], nf + 1)>>,
                   <<MakeMarkedLine(delta[p + 2], delta[p + 3], nt + 1)>>, TRUE >> >>
             \o line_iterator(delta, p + 4, nf + 1, nt + 1, pending)
        ELSE IF starts(<<"-", "-", "+", "+">>)
        THEN << << <<MakeKeyedLine(cur, "-", nf + 1)>>, <<>>, TRUE >> >>
             \o line_iterator(delta, p + 1, nf + 1, nt, pending - 1)
        ELSE IF starts(<<"-", "-", "?", "+">>) \/ starts(<<"-", "-", "+">>)
                \/ starts(<<"-", SP>>)
        THEN BlankLines(pending - 1)
             \o << << <<MakeKeyedLine(cur, "-", nf + 1)>>, <<>>, TRUE >> >>
             \o line_iterator(delta, p + 1, nf + 1, nt, 0)
        ELSE IF starts(<<"-", "+", "?">>)
        THEN << << <<MakePlainLine(cur, nf + 1)>>,
                   <<MakeMarkedLine(delta[p + 1], delta[p + 2], nt + 1)>>, TRUE >> >>
             \o line_iterator(delta, p + 3, nf + 1, nt + 1, pending)
        ELSE IF starts(<<"-", "?", "+">>)
        THEN << << <<MakeMarkedLine(cur, delta[p + 1], nf + 1)>>,
                   <<MakePlainLine(delta[p + 2], nt + 1)>>, TRUE >> >>
             \o line_iterator(delta, p + 3, nf + 1, nt + 1, pending)
        ELSE IF starts(<<"-">>)
        THEN << << <<MakeKeyedLine(cur, "-", nf + 1)>>, <<>>, TRUE >> >>
             \o line_iterator(delta, p + 1, nf + 1, nt, pending - 1)
        ELSE IF starts(<<"+", "-", "-">>)
        THEN << << <<>>, <<MakeKeyedLine(cur, "+", nt + 1)>>, TRUE >> >>
             \o line_iterator(delta, p + 1, nf, nt + 1, pending + 1)
        ELSE IF starts(<<"+", SP>>) \/ starts(<<"+", "-">>)
        THEN BlankLines(pending + 1)
             \o << << <<>>, <<MakeKeyedLine(cur, "+", nt + 1)>>, TRUE >> >>
             \o line_iterator(delta, p + 1, nf, nt + 1, 0)
        ELSE IF starts(<<"+">>)
        THEN << << <<>>, <<MakeKeyedLine(cur, "+", nt + 1)>>, TRUE >> >>
             \o line_iterator(delta, p + 1, nf, nt + 1, pending + 1)
        ELSE IF starts(<<SP>>)
        THEN << << <<MakePlainLine(cur, nf + 1)>>, <<MakePlainLine(cur, nt + 1)>>,
                   FALSE >> >>
             \o line_iterator(delta, p + 1, nf + 1, nt + 1, pending)
        ELSE \* a markers line heads the delta: no delta of ndiff has one there
             CHOOSE unreachable \in {} : TRUE

\* _mdiff._line_pair_iterator: fromq and toq are its fromlines and tolines,
\* each entry <<line, found_diff>>; n is the next triple of the line iterator
RECURSIVE line_pair_iterator(_, _, _, _)
line_pair_iterator(triples, n, fromq, toq) ==
    IF fromq # <<>> /\ toq # <<>>
    THEN << <<Head(fromq)[1], Head(toq)[1], Head(fromq)[2] \/ Head(toq)[2]>> >>
         \o line_pair_iterator(triples, n, Tail(fromq), Tail(toq))
    ELSE IF n > Len(triples) THEN <<>>
    ELSE LET t == triples[n]
         IN  line_pair_iterator(triples, n + 1,
                 IF t[1] # <<>> THEN Append(fromq, <<t[1][1], t[3]>>) ELSE fromq,
                 IF t[2] # <<>> THEN Append(toq, <<t[2][1], t[3]>>) ELSE toq)

\* difflib._mdiff(fromlines, tolines, None, linejunk=None,
\* charjunk=IS_CHARACTER_JUNK): the sequence of <<from_line, to_line, flag>>
mdiff(fromlines, tolines) ==
    line_pair_iterator(line_iterator(ndiff(fromlines, tolines), 1, 0, 0, 0), 1, <<>>, <<>>)

\* ------------------------------------------------------ CodeDiff.__init__
\* the newline translation of a file opened by io.open(path) in text mode:
\* '\r\n' and '\r' are read as '\n'
RECURSIVE UniversalNewlines(_, _)
UniversalNewlines(text, k) ==
    IF k > Len(text) THEN <<>>
    ELSE IF text[k] = CR
         THEN <<NL>> \o UniversalNewlines(text,
                           IF k < Len(text) /\ text[k + 1] = NL THEN k + 2 ELSE k + 1)
         ELSE <<text[k]>> \o UniversalNewlines(text, k + 1)

\* f.readlines(): every line keeps its '\n'; cur is the line being read
RECURSIVE ReadLinesFrom(_, _, _)
ReadLinesFrom(text, k, cur) ==
    IF k > Len(text) THEN (IF cur = <<>> THEN <<>> ELSE <<cur>>)
    ELSE IF text[k] = NL
         THEN <<Append(cur, NL)>> \o ReadLinesFrom(text, k + 1, <<>>)
         ELSE ReadLinesFrom(text, k + 1, Append(cur, text[k]))

\* the lines of a source file: with io.open(fromfile) as f: f.readlines()
readlines(text) == ReadLinesFrom(UniversalNewlines(text, 1), 1, <<>>)

\* str.split("\n"): one piece more than the text has '\n'
RECURSIVE SplitNL(_, _, _)
SplitNL(text, k, cur) ==
    IF k > Len(text) THEN <<cur>>
    ELSE IF text[k] = NL
         THEN <<cur>> \o SplitNL(text, k + 1, <<>>)
         ELSE SplitNL(text, k + 1, Append(cur, text[k]))

\* the lines of a text blob: [n + "\n" for n in fromtxt.split("\n")]
txtlines(txt) ==
    LET pieces == SplitNL(txt, 1, <<>>)
    IN  [k \in 1..Len(pieces) |-> Append(pieces[k], NL)]

\* "".join(lines)
RECURSIVE Join(_)
Join(lines) == IF lines = <<>> THEN <<>> ELSE Head(lines) \o Join(Tail(lines))

\* getDiffDetails with context=False: the tab expansion of both sides, then
\* list(difflib._mdiff(self.fromlines, self.tolines, None, ...))
getDiffDetails(fromlines, tolines) ==
    LET f == [k \in 1..Len(fromlines) |-> expand_tabs(fromlines[k])]
        t == [k \in 1..Len(tolines) |-> expand_tabs(tolines[k])]
    IN  [fromlines |-> f, tolines |-> t, diffs |-> mdiff(f, t)]

\* ------------------------------------------------------ DiffHtmlFormatter
\* isinstance(no, int) for the line number of a pair
IsInt(no) == no # NoLineNumber

\* the decimal digits of str(n), n >= 0
RECURSIVE Digits(_)
Digits(n) ==
    LET d == <<"0", "1", "2", "3", "4", "5", "6", "7", "8", "9">>[(n % 10) + 1]
    IN  IF n < 10 THEN <<d>> ELSE Append(Digits(n \div 10), d)

\* str(no) of a line number: '' stays ''
Str(no) == IF IsInt(no) THEN Digits(no) ELSE <<>>

\* the marker getDiffLineNos appends for one pair; None is kept as the text
\* 'None' that _wrap_tablelinenos makes of it
LineNoMarker(isLeft, pair) ==
    LET left_no  == pair[1][1]
        right_no == pair[2][1]
        change   == pair[3]
    IN  IF isLeft
        THEN IF change
             THEN IF IsInt(left_no) /\ IsInt(right_no)
                  THEN <<"<span class=\"lineno_q lineno_leftchange\">">> \o Str(left_no)
                         \o <<"</span>">>
                  ELSE IF IsInt(left_no) /\ ~IsInt(right_no)
                  THEN <<"<span class=\"lineno_q lineno_leftdel\">">> \o Str(left_no)
                         \o <<"</span>">>
                  ELSE IF ~IsInt(left_no) /\ IsInt(right_no)
                  THEN <<"<span class=\"lineno_q lineno_leftadd\">  </span>">>
                  ELSE <<"None">>
             ELSE <<"<span class=\"lineno_q\">">> \o Str(left_no) \o <<"</span>">>
        ELSE IF change
             THEN IF IsInt(left_no) /\ IsInt(right_no)
                  THEN <<"<span class=\"lineno_q lineno_rightchange\">">> \o Str(right_no)
                         \o <<"</span>">>
                  ELSE IF IsInt(left_no) /\ ~IsInt(right_no)
                  THEN <<"<span class=\"lineno_q lineno_rightdel\">  </span>">>
                  ELSE IF ~IsInt(left_no) /\ IsInt(right_no)
                  THEN <<"<span class=\"lineno_q lineno_rightadd\">">> \o Str(right_no)
                         \o <<"</span>">>
                  ELSE <<"None">>
             ELSE <<"<span class=\"lineno_q\">">> \o Str(right_no) \o <<"</span>">>

\* DiffHtmlFormatter.getDiffLineNos
getDiffLineNos(isLeft, diffs) == [k \in 1..Len(diffs) |-> LineNoMarker(isLeft, diffs[k])]

\* '<span class="...">' + t + "</span>"
Span(class, t) == <<"<span class=\"" \o class \o "\">">> \o t \o <<"</span>">>

\* the body of the loop of _wrap_code for one pair: the (i, t) it yields, as
\* a one-element sequence, or nothing when the body raises and the except
\* clause passes.  source[n] is source[n - 1] of the code.
WrapPair(isLeft, pair, source) ==
    LET left_no    == pair[1][1]
        left_line  == pair[1][2]
        right_no   == pair[2][1]
        right_line == pair[2][2]
        change     == pair[3]
    IN  IF isLeft
        THEN IF change
             THEN IF IsInt(left_no) /\ IsInt(right_no) /\ left_no <= Len(source)
                  THEN << <<source[left_no][1], Span("left_diff_change", source[left_no][2])>> >>
                  ELSE IF IsInt(left_no) /\ ~IsInt(right_no) /\ left_no <= Len(source)
                  THEN << <<source[left_no][1], Span("left_diff_del", source[left_no][2])>> >>
                  ELSE IF ~IsInt(left_no) /\ IsInt(right_no)
                  THEN << <<1, Span("left_diff_add", left_line)>> >>
                  ELSE <<>>                       \* raise
             ELSE IF ~IsInt(left_no) THEN <<>>    \* '' <= len(source): TypeError
                  ELSE IF left_no <= Len(source)
                  THEN << source[left_no] >>
                  ELSE << <<1, left_line>> >>
        ELSE IF change
             THEN IF IsInt(left_no) /\ IsInt(right_no) /\ right_no <= Len(source)
                  THEN << <<source[right_no][1], Span("right_diff_change", source[right_no][2])>> >>
                  ELSE IF IsInt(left_no) /\ ~IsInt(right_no)
                  THEN << <<1, Span("right_diff_del", right_line)>> >>
                  ELSE IF ~IsInt(left_no) /\ IsInt(right_no) /\ right_no <= Len(source)
                  THEN << <<source[right_no][1], Span("right_diff_add", source[right_no][2])>> >>
                  ELSE <<>>                       \* raise
             ELSE IF ~IsInt(right_no) THEN <<>>   \* '' <= len(source): TypeError
                  ELSE IF right_no <= Len(source)
                  THEN << source[right_no] >>
                  ELSE << <<1, right_line>> >>

\* a plausible slip: the highlighted line is looked up by the index of the
\* pair in the sequence, not by the line number of this side
WrapRowsByIndex(isLeft, diffs, source) ==
    [k \in 1..Len(diffs) |->
        WrapPair(isLeft,
                 IF isLeft
                 THEN << <<IF IsInt(diffs[k][1][1]) THEN k ELSE NoLineNumber, diffs[k][1][2]>>,
                         diffs[k][2], diffs[k][3] >>
                 ELSE << diffs[k][1],
                         <<IF IsInt(diffs[k][2][1]) THEN k ELSE NoLineNumber, diffs[k][2][2]>>,
                         diffs[k][3] >>,
                 source)]

\* what the loop of _wrap_code yields, pair by pair
WrapRows(isLeft, diffs, source) ==
    [k \in 1..Len(diffs) |-> WrapPair(isLeft, diffs[k], source)]

\* DiffHtmlFormatter._wrap_code
wrap_code(isLeft, diffs, source) ==
    << <<0, <<"<pre>">> >> >> \o Join(WrapRows(isLeft, diffs, source))
        \o << <<0, <<"\n</pre>">> >> >>

\* the text _wrap_tablelinenos writes to dummyoutfile
RECURSIVE JoinItems(_)
JoinItems(items) == IF items = <<>> THEN <<>> ELSE Head(items)[2] \o JoinItems(Tail(items))

\* DiffHtmlFormatter._wrap_tablelinenos with noclasses off: the table of the
\* line-number column and the code column
wrap_tablelinenos(inner, linenos) ==
    <<"<table class=\"highlighttable\"><tr><td class=\"linenos\"><div class=\"linenodiv\"><pre>">>
        \o Join(linenos)
        \o <<"</pre></div></td><td class=\"code\">">>
        \o JoinItems(inner)
        \o <<"</td></tr></table>">>

\* str.strip('\n')
RECURSIVE LStripNL(_)
LStripNL(s) == IF s # <<>> /\ Head(s) = NL THEN LStripNL(Tail(s)) ELSE s

\* the text a pygments lexer tokenizes (Lexer.get_tokens with its default
\* options stripnl and ensurenl): newlines normalised, leading and trailing
\* newlines stripped, one final newline ensured
LexerInput(code) ==
    LET stripped == RStripNL(LStripNL(UniversalNewlines(code, 1)))
    IN  IF stripped # <<>> /\ stripped[Len(stripped)] = NL THEN stripped
        ELSE Append(stripped, NL)

\* the source handed to wrap: HtmlFormatter._format_lines yields (1, line)
\* for every line of the lexed text, the line in the markup of the lexer
HighlightedLines(code) ==
    LET lines == ReadLinesFrom(LexerInput(code), 1, <<>>)
    IN  [k \in 1..Len(lines) |->
            <<1, <<"<span class=\"hl\">">> \o RStripNL(lines[k]) \o <<"</span>", NL>> >>]

\* what pygments.highlight raises when HtmlFormatter.format_unencoded calls
\* self.wrap(source): DiffHtmlFormatter.wrap takes (source, outfile)
TypeError ==
    [raised |-> "TypeError: wrap() missing 1 required positional argument: 'outfile'"]

\* what guess_lexer_for_filename(self.filename, code) raises when
\* self.filename is None: format catches ClassNotFound only
FilenameTypeError ==
    [raised |-> "TypeError: expected str, bytes or os.PathLike object, not NoneType"]

\* one turn of the loop of format: the lexer is guessed from self.filename,
\* then pygments.highlight(code, self.lexer, inst).  A pygments whose
\* format_unencoded calls self.wrap(source, outfile) sends the highlighted
\* lines through wrap (_wrap_code) and _wrap_tablelinenos; a later pygments
\* calls self.wrap(source), which DiffHtmlFormatter.wrap does not accept.
RenderPane(name, passesOutfile, isLeft, code, d) ==
    IF name = <<>> THEN FilenameTypeError
    ELSE IF passesOutfile
    THEN LET source == HighlightedLines(code)
             linenos == getDiffLineNos(isLeft, d)
             wrapped == wrap_code(isLeft, d, source)
         IN  [isLeft    |-> isLeft,
              source    |-> source,
              linenos   |-> linenos,
              rows      |-> WrapRows(isLeft, d, source),
              code      |-> wrapped,
              formatted |-> wrap_tablelinenos(wrapped, linenos)]
    ELSE TypeError

\* whether the turn of the loop raises: the two TypeErrors depend on the
\* name and on the pygments only, not on the code
RenderRaises(name, passesOutfile) ==
    RenderPane(name, passesOutfile, TRUE, <<>>, <<>>) \in {FilenameTypeError, TypeError}

\* ---------------------------------------------------------------- the page
\* str.startswith(old, i - 1), i from 1
MatchAt(s, old, i) == \A k \in 1..Len(old) : s[i + k - 1] = old[k]

\* str.find(old, i - 1) + 1: the first place at or after i where old occurs
\* in s, 0 when there is none
Find(s, old, i) ==
    LET M == {j \in i..(Len(s) - Len(old) + 1) : s[j] = old[1] /\ MatchAt(s, old, j)}
    IN  IF M = {} THEN 0 ELSE CHOOSE j \in M : \A m \in M : j <= m

\* the rest of str.replace from place i on: the occurrences of old are taken
\* leftmost first and do not overlap; what new brings in is not searched
RECURSIVE ReplaceFrom(_, _, _, _)
ReplaceFrom(s, old, new, i) ==
    LET j == Find(s, old, i)
    IN  IF j = 0 THEN SubSeq(s, i, Len(s))
        ELSE SubSeq(s, i, j - 1) \o new \o ReplaceFrom(s, old, new, j + Len(old))

\* str.replace(old, new) for a non-empty old of any length
ReplaceStr(s, old, new) == ReplaceFrom(s, old, new, 1)

\* the elements of a text that stand for one character under a name
NamedChars == {NUL, SOH} \cup (WhiteSpace \ {TAB, NL, FF, CR, SP})

\* the number of characters of an element of a text: one, or as many as the
\* literal has
CharLen(e) == IF e \in NamedChars THEN 1 ELSE Len(e)

\* the number of characters of the elements lo..hi of a text, by halves
RECURSIVE TextLenBetween(_, _, _)
TextLenBetween(s, lo, hi) ==
    IF lo > hi THEN 0
    ELSE IF lo = hi THEN CharLen(s[lo])
    ELSE LET mid == (lo + hi) \div 2
         IN  TextLenBetween(s, lo, mid) + TextLenBetween(s, mid + 1, hi)

\* len(text)
TextLen(s) == TextLenBetween(s, 1, Len(s))

\* the greatest k in lo..hi for which the first k elements of the text have
\* no more than n characters; the first lo elements have no more
RECURSIVE WholeWithin(_, _, _, _)
WholeWithin(s, lo, hi, n) ==
    IF lo >= hi THEN lo
    ELSE LET mid == (lo + hi + 1) \div 2
         IN  IF TextLenBetween(s, 1, mid) <= n
             THEN WholeWithin(s, mid, hi, n)
             ELSE WholeWithin(s, lo, mid - 1, n)

\* text[:n], the first n characters of the text: the literal the cut falls
\* into is cut as well
CharPrefix(s, n) ==
    LET k == WholeWithin(s, 0, Len(s), n)
        rest == n - TextLenBetween(s, 1, k)
    IN  IF k < Len(s) /\ rest > 0
        THEN Append(SubSeq(s, 1, k), SubSeq(s[k + 1], 1, rest))
        ELSE SubSeq(s, 1, k)

\* the five markers format replaces by the contents of the asset files
Placeholder_reset_css ==
    <<"#", "#", "#", "r", "e", "s", "e", "t", "_", "c", "s", "s", "#", "#", "#">>

Placeholder_pygments_css ==
    <<"#", "#", "#", "p", "y", "g", "m", "e", "n", "t", "s", "_", "c", "s", "s", "#", "#", "#">>

Placeholder_diff_css ==
    <<"#", "#", "#", "d", "i", "f", "f", "_", "c", "s", "s", "#", "#", "#">>

Placeholder_jquery_js ==
    <<"#", "#", "#", "j", "q", "u", "e", "r", "y", "_", "j", "s", "#", "#", "#">>

Placeholder_diff_js ==
    <<"#", "#", "#", "d", "i", "f", "f", "_", "j", "s", "#", "#", "#">>

HTML_TEMPLATE ==
    << <<"text", <<"\n<!DOCTYPE html>\n<html class=\"no-js\">\n    <head>\n        <!-- \n          html_title:    browser tab title\n          reset_css:     relative path to reset css file\n          pygments_css:  relative path to pygments css file\n          diff_css:      relative path to diff layout css file\n          page_title:    title shown at the top of the page. This should be the filename of the files being diff'd\n          original_code: full html contents of original file\n          modified_code: full html contents of modified file\n          jquery_js:     path to jquery.min.js\n          diff_js:       path to diff.js\n        -->\n        <meta charset=\"utf-8\">\n        <title>\n            ">> >>,
       <<"key", <<"html_title">> >>,
       <<"text", <<"\n        </title>\n        <meta name=\"description\" content=\"\">\n        <meta name=\"viewport\" content=\"width=device-width, initial-scale=1\">\n        <meta name=\"mobile-web-app-capable\" content=\"yes\">\n        <style>">> >>,
       <<"text", Placeholder_reset_css>>,
       <<"text", <<"</style>\n        <style>">> >>,
       <<"text", Placeholder_diff_css>>,
       <<"text", <<"</style>\n        <style>">> >>,
       <<"text", Placeholder_pygments_css>>,
       <<"text", <<"</style>\n\n    </head>\n    <body>\n        <div class=\"\" id=\"topbar\">\n          <div id=\"filetitle\"> \n            ">> >>,
       <<"key", <<"page_title">> >>,
       <<"text", <<"\n          </div>\n          <div class=\"switches\">\n            <div class=\"switch\">\n              <input id=\"showoriginal\" class=\"toggle toggle-yes-no menuoption\" type=\"checkbox\" checked>\n              <label for=\"showoriginal\" data-on=\"&#10004; Original\" data-off=\"Original\"></label>\n            </div>\n            <div class=\"switch\">\n              <input id=\"showmodified\" class=\"toggle toggle-yes-no menuoption\" type=\"checkbox\" checked>\n              <label for=\"showmodified\" data-on=\"&#10004; Modified\" data-off=\"Modified\"></label>\n            </div>\n            <div class=\"switch\">\n              <input id=\"highlight\" class=\"toggle toggle-yes-no menuoption\" type=\"checkbox\" checked>\n              <label for=\"highlight\" data-on=\"&#10004; Highlight\" data-off=\"Highlight\"></label>\n            </div>\n            <div class=\"switch\">\n              <input id=\"codeprintmargin\" class=\"toggle toggle-yes-no menuoption\" type=\"checkbox\" checked>\n              <label for=\"codeprintmargin\" data-on=\"&#10004; Margin\" data-off=\"Margin\"></label>\n            </div>\n            <div class=\"switch\">\n              <input id=\"dosyntaxhighlight\" class=\"toggle toggle-yes-no menuoption\" type=\"checkbox\" checked>\n              <label for=\"dosyntaxhighlight\" data-on=\"&#10004; Syntax\" data-off=\"Syntax\"></label>\n            </div>\n          </div>\n        </div>\n        <div id=\"maincontainer\" class=\"">> >>,
       <<"key", <<"page_width">> >>,
       <<"text", <<"\">\n            <div id=\"leftcode\" class=\"left-inner-shadow codebox divider-outside-bottom\">\n                <div class=\"codefiletab\">\n                    &#10092; Original\n                </div>\n                <div class=\"printmargin\">\n                    01234567890123456789012345678901234567890123456789012345678901234567890123456789\n                </div>\n                ">> >>,
       <<"key", <<"original_code">> >>,
       <<"text", <<"\n            </div>\n            <div id=\"rightcode\" class=\"left-inner-shadow codebox divider-outside-bottom\">\n                <div class=\"codefiletab\">\n                    &#10093; Modified\n                </div>\n                <div class=\"printmargin\">\n                    01234567890123456789012345678901234567890123456789012345678901234567890123456789\n                </div>\n                ">> >>,
       <<"key", <<"modified_code">> >>,
       <<"text", <<"\n            </div>\n        </div>\n<script>">> >>,
       <<"text", Placeholder_jquery_js>>,
       <<"text", <<"</script>\n<script>">> >>,
       <<"text", Placeholder_diff_js>>,
       <<"text", <<"</script>\n    </body>\n</html>\n">> >> >>

\* HTML_TEMPLATE % answers: every %(key)s gives way to str(answers[key])
PercentFormat(template, answers) ==
    Join([k \in 1..Len(template) |->
            IF template[k][1] = "key" THEN answers[template[k][2][1]]
            ELSE template[k][2]])

\* the dictionary answers of format; name is self.filename as an option,
\* which %s prints as None when it is None
Answers(name, print_width, original_code, modified_code) ==
    [html_title    |-> IF name = <<>> THEN <<"N", "o", "n", "e">> ELSE name[1],
     reset_css     |-> <<"deps/reset.css">>,
     pygments_css  |-> <<"deps/codeformats/vs.css">>,
     diff_css      |-> <<"deps/diff.css">>,
     page_title    |-> IF name = <<>> THEN <<"N", "o", "n", "e">> ELSE name[1],
     original_code |-> original_code,
     modified_code |-> modified_code,
     jquery_js     |-> <<"deps/jquery.min.js">>,
     diff_js       |-> <<"deps/diff.js">>,
     page_width    |-> IF print_width THEN <<"page-80-width">>
                       ELSE <<"page-full-width">>]

\* self.htmlContents as format leaves it: the template filled in, then the
\* five replacements over the whole page, one after the other, each of them
\* seeing what the ones before it have brought in
HtmlContents(name, print_width, original_code, modified_code, strings) ==
    ReplaceStr(
      ReplaceStr(
        ReplaceStr(
          ReplaceStr(
            ReplaceStr(
              PercentFormat(HTML_TEMPLATE,
                            Answers(name, print_width, original_code, modified_code)),
              Placeholder_reset_css, strings[1]),
            Placeholder_pygments_css, strings[2]),
          Placeholder_diff_css, strings[3]),
        Placeholder_jquery_js, strings[4]),
      Placeholder_diff_js, strings[5])

\* ------------------------------------------------------------ the inputs
\* the greatest number of lines of a source text
MaxLines == 2

\* the greatest length of a line given to expand_tabs on its own
MaxLineLen == 3

\* the greatest number of characters the output file can take when it
\* cannot take the whole page
MaxWritten == 1

\* the lines the source texts are made of: "ab" and "abb" are close enough
\* (ratio 0.8) for the intraline comparison of difflib, the blank line and
\* either of them are not
LineChoices == { <<>>, <<"a", "b">>, <<"a", "b", "b">> }

SeqsUpTo(S, n) == UNION {[1..m -> S] : m \in 0..n}

\* the text of the given lines, each ended by '\n', the last one only when
\* finalNL
TextOf(lines, finalNL) ==
    Join([k \in 1..Len(lines) |->
            IF k < Len(lines) \/ finalNL THEN Append(lines[k], NL) ELSE lines[k]])

Texts == {TextOf(ls, nl) : ls \in SeqsUpTo(LineChoices, MaxLines), nl \in BOOLEAN}

\* the lines expand_tabs is given on their own: a body without '\n', with or
\* without the '\n' that readlines and the blob split leave at the end
TabLines ==
    {IF nl THEN Append(body, NL) ELSE body :
        body \in SeqsUpTo({"a", "b", SP, TAB, NUL}, MaxLineLen), nl \in BOOLEAN}

\* the name CodeDiff is given: None (the default, <<>>), or the name of a
\* file, one that holds a marker of the template among its characters
Names == { <<>>, << <<"b">> \o Placeholder_diff_css \o <<".", "p", "y">> >> }

\* the room the environment leaves for the output file, in characters, as an
\* option: <<>> when nothing limits it (no file size limit, a disk with
\* space), <<n>> when the file cannot grow beyond n characters
Rooms == { <<>> } \cup { <<n>> : n \in 0..MaxWritten }

\* ------------------------------------------------------------- the state
VARIABLES
    pc,            \* the step generateDiff2Html (or a caller of CodeDiff) is at
    useTxt,        \* whether CodeDiff is given fromtxt and totxt
    wrapOutfile,   \* whether the installed pygments calls wrap(source, outfile)
    filename,      \* self.filename as an option: <<>> is None
    fromfile,      \* the text of file1 (or fromtxt)
    tofile,        \* the text of file2 (or totxt)
    fromlines,     \* self.fromlines
    tolines,       \* self.tolines
    leftcode,      \* self.leftcode
    rightcode,     \* self.rightcode
    diffs,         \* self.diffs
    codeContents,  \* the panes rendered so far, left first
    assets,        \* the contents of the asset files read so far
    htmlContents,  \* self.htmlContents, <<>> until format has set it
    output,        \* the file at the output path, <<>> while it is not written
    room,          \* the characters the output file can take, <<>> without limit
    tabLine,       \* a line given to expand_tabs on its own
    tabOut         \* its expansion, as a one-element sequence

vars == <<pc, useTxt, wrapOutfile, filename, fromfile, tofile, fromlines, tolines, leftcode, rightcode,
          diffs, codeContents, assets, htmlContents, output, room, tabLine, tabOut>>

\* resetCssFile, pygmentsCssFile % 'vs', diffCssFile, jqueryJsFile,
\* diffJsFile, in the order format opens them
AssetFiles == <<"deps/reset.css", "deps/codeformats/vs.css", "deps/diff.css",
                "deps/jquery.min.js", "deps/diff.js">>

\* f.read() of an asset file: its contents, a text that holds no marker
ReadAsset(path) == <<"contents of " \o path>>

\* the arguments of CodeDiff and the environment of the run; the room of
\* the output file is drawn for the runs that can come to write, the others
\* never look at it
Init ==
    /\ pc = "init_from"
    /\ useTxt \in BOOLEAN
    /\ wrapOutfile \in BOOLEAN
    /\ filename \in Names
    /\ room \in IF RenderRaises(filename, wrapOutfile) THEN { <<>> } ELSE Rooms
    /\ fromfile \in Texts
    /\ tofile \in Texts
    /\ fromlines = <<>>
    /\ tolines = <<>>
    /\ leftcode = <<>>
    /\ rightcode = <<>>
    /\ diffs = <<>>
    /\ codeContents = <<>>
    /\ assets = <<>>
    /\ htmlContents = <<>>
    /\ output = <<>>
    /\ tabLine = <<>>
    /\ tabOut = <<>>

\* CodeDiff.__init__, the from side: the file is read, or the blob is split
InitFrom ==
    /\ pc = "init_from"
    /\ fromlines' = IF useTxt THEN txtlines(fromfile) ELSE readlines(fromfile)
    /\ leftcode' = Join(fromlines')
    /\ pc' = "init_to"
    /\ UNCHANGED <<room, wrapOutfile, filename, useTxt, fromfile, tofile, tolines, rightcode, diffs, codeContents,
                   assets, htmlContents, output, tabLine, tabOut>>

\* CodeDiff.__init__: reading fromfile raises; the message is printed and
\* sys.exit(1) ends the run
InitFromFails ==
    /\ pc = "init_from"
    /\ ~useTxt
    /\ pc' = "exit"
    /\ UNCHANGED <<room, wrapOutfile, filename, useTxt, fromfile, tofile, fromlines, tolines, leftcode, rightcode,
                   diffs, codeContents, assets, htmlContents, output, tabLine, tabOut>>

\* CodeDiff.__init__, the to side
InitTo ==
    /\ pc = "init_to"
    /\ tolines' = IF useTxt THEN txtlines(tofile) ELSE readlines(tofile)
    /\ rightcode' = Join(tolines')
    /\ pc' = "details"
    /\ UNCHANGED <<room, wrapOutfile, filename, useTxt, fromfile, tofile, fromlines, leftcode, diffs, codeContents,
                   assets, htmlContents, output, tabLine, tabOut>>

\* CodeDiff.__init__: reading tofile raises
InitToFails ==
    /\ pc = "init_to"
    /\ ~useTxt
    /\ pc' = "exit"
    /\ UNCHANGED <<room, wrapOutfile, filename, useTxt, fromfile, tofile, fromlines, tolines, leftcode, rightcode,
                   diffs, codeContents, assets, htmlContents, output, tabLine, tabOut>>

\* format: self.diffs = self.getDiffDetails(self.fromfile, self.tofile)
GetDiffDetails ==
    /\ pc = "details"
    /\ \E d \in {getDiffDetails(fromlines, tolines)} :
           /\ fromlines' = d.fromlines
           /\ tolines' = d.tolines
           /\ diffs' = d.diffs
    /\ pc' = "fields"
    /\ UNCHANGED <<room, wrapOutfile, filename, useTxt, fromfile, tofile, leftcode, rightcode, codeContents,
                   assets, htmlContents, output, tabLine, tabOut>>

\* format: one turn of the loop over fields, the left pane then the right
FormatField ==
    /\ pc = "fields"
    /\ ~RenderRaises(filename, wrapOutfile)
    /\ \E pane \in {RenderPane(filename, wrapOutfile, codeContents = <<>>,
                                IF codeContents = <<>> THEN leftcode ELSE rightcode,
                                diffs)} :
           codeContents' = Append(codeContents, pane)
    /\ pc' = IF Len(codeContents') = 2 THEN "assets" ELSE "fields"
    /\ UNCHANGED <<room, wrapOutfile, filename, useTxt, fromfile, tofile, fromlines, tolines, leftcode,
                   rightcode, diffs, assets, htmlContents, output, tabLine, tabOut>>

\* format: guess_lexer_for_filename or pygments.highlight raises a TypeError
\* for the first field; nothing catches it
FormatFieldRaises ==
    /\ pc = "fields"
    /\ RenderRaises(filename, wrapOutfile)
    /\ pc' = "raised"
    /\ UNCHANGED <<room, wrapOutfile, filename, useTxt, fromfile, tofile, fromlines, tolines, leftcode,
                   rightcode, diffs, codeContents, assets, htmlContents, output,
                   tabLine, tabOut>>

\* format: the next asset file is opened and read
LoadAsset ==
    /\ pc = "assets"
    /\ assets' = Append(assets, ReadAsset(AssetFiles[Len(assets) + 1]))
    /\ pc' = IF Len(assets') = Len(AssetFiles) THEN "template" ELSE "assets"
    /\ UNCHANGED <<room, wrapOutfile, filename, useTxt, fromfile, tofile, fromlines, tolines, leftcode, rightcode,
                   diffs, codeContents, htmlContents, output, tabLine, tabOut>>

\* a plausible slip: the failure to open an asset file is swallowed and the
\* asset is left empty
LoadAssetSkipped ==
    /\ pc = "assets"
    /\ assets' = Append(assets, <<>>)
    /\ pc' = IF Len(assets') = Len(AssetFiles) THEN "template" ELSE "assets"
    /\ UNCHANGED <<room, wrapOutfile, filename, useTxt, fromfile, tofile, fromlines, tolines, leftcode, rightcode,
                   diffs, codeContents, htmlContents, output, tabLine, tabOut>>

\* format: open raises for the next asset file; nothing catches it
LoadAssetFails ==
    /\ pc = "assets"
    /\ pc' = "raised"
    /\ UNCHANGED <<room, wrapOutfile, filename, useTxt, fromfile, tofile, fromlines, tolines, leftcode, rightcode,
                   diffs, codeContents, assets, htmlContents, output, tabLine, tabOut>>

\* format: self.htmlContents = HTML_TEMPLATE % answers, then the five
\* replacements of the asset markers; print_width is options['print_width']
FillTemplate ==
    /\ pc = "template"
    /\ \E print_width \in BOOLEAN :
           htmlContents' = << HtmlContents(filename, print_width,
                                           codeContents[1].formatted,
                                           codeContents[2].formatted, assets) >>
    /\ pc' = "write"
    /\ UNCHANGED <<room, wrapOutfile, filename, useTxt, fromfile, tofile, fromlines, tolines, leftcode,
                   rightcode, diffs, codeContents, assets, output, tabLine, tabOut>>

\* CodeDiff.write: the file is opened, the page written, the file closed;
\* the file has room for the page
Write ==
    /\ pc = "write"
    /\ IF room = <<>> THEN TRUE ELSE TextLen(htmlContents[1]) <= room[1]
    /\ output' = htmlContents
    /\ pc' = "done"
    /\ UNCHANGED <<room, wrapOutfile, filename, useTxt, fromfile, tofile, fromlines, tolines,
                   leftcode, rightcode, diffs, codeContents, assets, htmlContents,
                   tabLine, tabOut>>

\* CodeDiff.write raises: either io.open(path, 'w') fails and the file is as
\* it was, or open has truncated the file, the file has no room for the page
\* and fh.write or fh.close fails with the first room[1] characters of the
\* page on the disk (a page that cannot be encoded leaves what no room at
\* all leaves, the empty file)
WriteFails ==
    /\ pc = "write"
    /\ \/ output' = output
       \/ /\ room # <<>>
          /\ room[1] < TextLen(htmlContents[1])
          /\ output' = << CharPrefix(htmlContents[1], room[1]) >>
    /\ pc' = "raised"
    /\ UNCHANGED <<room, wrapOutfile, filename, useTxt, fromfile, tofile, fromlines, tolines,
                   leftcode, rightcode, diffs, codeContents, assets, htmlContents,
                   tabLine, tabOut>>

Next ==
    \/ InitFrom
    \/ InitFromFails
    \/ InitTo
    \/ InitToFails
    \/ GetDiffDetails
    \/ FormatField
    \/ FormatFieldRaises
    \/ LoadAsset
    \/ LoadAssetFails
    \/ FillTemplate
    \/ Write
    \/ WriteFails

Spec == Init /\ [][Next]_vars

\* ------------------------------------------------ expand_tabs on its own
InitTabs ==
    /\ pc = "line"
    /\ tabLine \in TabLines
    /\ tabOut = <<>>
    /\ useTxt = FALSE
    /\ wrapOutfile = FALSE
    /\ filename = <<>>
    /\ room = <<>>
    /\ fromfile = <<>>
    /\ tofile = <<>>
    /\ fromlines = <<>>
    /\ tolines = <<>>
    /\ leftcode = <<>>
    /\ rightcode = <<>>
    /\ diffs = <<>>
    /\ codeContents = <<>>
    /\ assets = <<>>
    /\ htmlContents = <<>>
    /\ output = <<>>

\* one call of expand_tabs by getDiffDetails
ExpandLine ==
    /\ pc = "line"
    /\ tabOut' = <<expand_tabs(tabLine)>>
    /\ pc' = "expanded"
    /\ UNCHANGED <<room, wrapOutfile, filename, useTxt, fromfile, tofile, fromlines, tolines, leftcode, rightcode,
                   diffs, codeContents, assets, htmlContents, output, tabLine>>

NextTabs == ExpandLine

SpecTabs == InitTabs /\ [][NextTabs]_vars

\* ------------------------------------------------------------ the claims
\* C1: once getDiffDetails has returned (context off), the left line numbers
\* that are present in self.diffs, read in sequence order, are exactly
\* 1, 2, ..., len(fromlines), and the right ones exactly 1, 2, ...,
\* len(tolines): no line is dropped, duplicated or reordered.
C1_CoversEachSideInOrder ==
    pc \in {"fields", "assets", "template", "write", "done", "raised"} =>
        LET HasLeft(p)  == p[1][1] # NoLineNumber
            HasRight(p) == p[2][1] # NoLineNumber
            left  == SelectSeq(diffs, HasLeft)
            right == SelectSeq(diffs, HasRight)
        IN  /\ [k \in 1..Len(left) |-> left[k][1][1]] = [k \in 1..Len(fromlines) |-> k]
            /\ [k \in 1..Len(right) |-> right[k][2][1]] = [k \in 1..Len(tolines) |-> k]

\* two lines on each side, a pair without a left line and a pair without a
\* right line among the aligned pairs
C1_Witness ==
    /\ pc = "fields"
    /\ Len(fromlines) = 2
    /\ Len(tolines) = 2
    /\ \E k \in 1..Len(diffs) : diffs[k][1][1] = NoLineNumber
    /\ \E k \in 1..Len(diffs) : diffs[k][2][1] = NoLineNumber

\* C2 as the code has it: expand_tabs turns the columns a tab spans into tab
\* characters, not spaces ("a\tb" becomes "a", seven tabs, "b"); a line
\* without tab and NUL is returned without its trailing newlines and
\* otherwise unchanged; with the tabs left aside, the result is the line
\* without its trailing newlines, each NUL turned into a space, so no space
\* of the line is altered or duplicated.
C2_TabsStayTabs ==
    pc = "expanded" =>
        LET out == tabOut[1]
            NotTab(c) == c # TAB
            NoTab(l) == \A k \in 1..Len(l) : l[k] \notin {TAB, NUL}
        IN  /\ NoTab(tabLine) => out = RStripNL(tabLine)
            /\ tabLine = <<"a", TAB, "b">> =>
                   out = <<"a", TAB, TAB, TAB, TAB, TAB, TAB, TAB, "b">>
            /\ SelectSeq(out, NotTab)
                   = SelectSeq(Replace(RStripNL(tabLine), NUL, SP), NotTab)

\* expand_tabs has been applied to "a\tb"
C2_Witness ==
    /\ pc = "expanded"
    /\ tabLine = <<"a", TAB, "b">>
    /\ Len(tabOut[1]) = 9

\* C2 as the specification has it: a line without a tab is returned unchanged
\* (its trailing newline aside) and "a\tb" becomes "a", seven spaces, "b".
C2_TabsBecomeSpaces ==
    pc = "expanded" =>
        LET out == tabOut[1]
            NoTab(l) == \A k \in 1..Len(l) : l[k] \notin {TAB, NUL}
        IN  /\ NoTab(tabLine) => out = RStripNL(tabLine)
            /\ tabLine = <<"a", TAB, "b">> =>
                   out = <<"a", SP, SP, SP, SP, SP, SP, SP, "b">>

\* C3 as the specification has it: in every rendered pane the number of
\* line-number markers of getDiffLineNos equals the number of content lines
\* _wrap_code yields between '<pre>' and '</pre>', and both equal the number
\* of aligned pairs.
C3_MarkersMatchContentLines ==
    \A n \in 1..Len(codeContents) :
        /\ Len(codeContents[n].linenos) = Len(diffs)
        /\ Len(codeContents[n].code) - 2 = Len(diffs)

\* C4: in every pair of self.diffs the two line numbers are never both
\* absent, and a pair whose flag is false has both line numbers and the same
\* text on both sides.
C4_AlignedPairInvariant ==
    pc \in {"fields", "assets", "template", "write", "done", "raised"} =>
        \A k \in 1..Len(diffs) :
            /\ ~(diffs[k][1][1] = NoLineNumber /\ diffs[k][2][1] = NoLineNumber)
            /\ diffs[k][3] = FALSE =>
                   /\ diffs[k][1][1] # NoLineNumber
                   /\ diffs[k][2][1] # NoLineNumber
                   /\ diffs[k][1][2] = diffs[k][2][2]

\* an unchanged pair, a pair without a left line and a pair without a right
\* line in the same aligned sequence
C4_Witness ==
    /\ pc = "assets"
    /\ \E k \in 1..Len(diffs) : diffs[k][3] = FALSE
    /\ \E k \in 1..Len(diffs) : diffs[k][3] /\ diffs[k][1][1] = NoLineNumber
    /\ \E k \in 1..Len(diffs) : diffs[k][3] /\ diffs[k][2][1] = NoLineNumber

\* C5: when fromlines is empty, every line of tolines is a changed pair
\* without a left line number, the right numbers being 1, 2, ... in order;
\* the mirror holds when tolines is empty; when both are empty so is the
\* sequence.
C5_PureInsertionAndDeletion ==
    pc \in {"fields", "assets", "template", "write", "done", "raised"} =>
        /\ fromlines = <<>> =>
               /\ Len(diffs) = Len(tolines)
               /\ \A k \in 1..Len(diffs) : /\ diffs[k][1][1] = NoLineNumber
                                           /\ diffs[k][2][1] = k
                                           /\ diffs[k][3] = TRUE
        /\ tolines = <<>> =>
               /\ Len(diffs) = Len(fromlines)
               /\ \A k \in 1..Len(diffs) : /\ diffs[k][2][1] = NoLineNumber
                                           /\ diffs[k][1][1] = k
                                           /\ diffs[k][3] = TRUE
        /\ fromlines = <<>> /\ tolines = <<>> => diffs = <<>>

\* an empty from side diffed against two lines
C5_Witness ==
    /\ pc = "fields"
    /\ fromlines = <<>>
    /\ Len(tolines) = 2
    /\ Len(diffs) = 2

\* C6: when fromlines equals tolines, every pair is unchanged, pair i carries
\* the line number i on both sides, and there are as many pairs as lines.
C6_IdentityDiff ==
    pc \in {"fields", "assets", "template", "write", "done", "raised"} =>
        (fromlines = tolines =>
            /\ Len(diffs) = Len(fromlines)
            /\ \A k \in 1..Len(diffs) : /\ diffs[k][3] = FALSE
                                        /\ diffs[k][1][1] = k
                                        /\ diffs[k][2][1] = k)

\* two equal sides of two lines have been diffed
C6_Witness ==
    /\ pc = "fields"
    /\ fromlines = tolines
    /\ Len(fromlines) = 2
    /\ Len(diffs) = 2

\* C7: the output file is touched only by write, after both sources have
\* been read, both panes rendered and the five asset files loaded: whatever
\* the output path holds then is the page of format or the part of it that a
\* failing write has left.  A run that has ended in an error before write (a
\* source that cannot be read, a pane that cannot be rendered, an asset that
\* cannot be opened) has written nothing to the output path, not even a part.
\* The assets in hand are at all times the contents of the asset files, in
\* the order format opens them: none is skipped.
C7_NoOutputOnFatalError ==
    /\ output # <<>> =>
           /\ pc \in {"done", "raised"}
           /\ leftcode = Join(IF useTxt THEN txtlines(fromfile) ELSE readlines(fromfile))
           /\ rightcode = Join(IF useTxt THEN txtlines(tofile) ELSE readlines(tofile))
           /\ Len(codeContents) = 2
           /\ assets = [k \in 1..Len(AssetFiles) |-> ReadAsset(AssetFiles[k])]
           /\ htmlContents # <<>>
           /\ output[1] = CharPrefix(htmlContents[1], TextLen(output[1]))
    /\ pc = "done" => output = htmlContents
    /\ pc = "exit" => output = <<>> /\ codeContents = <<>> /\ assets = <<>>
    /\ pc = "raised" /\ htmlContents = <<>> => output = <<>>
    /\ \A k \in 1..Len(assets) : assets[k] = ReadAsset(AssetFiles[k])

\* the fifth asset file could not be opened after both panes were rendered
\* and four assets loaded
C7_Witness ==
    /\ pc = "raised"
    /\ Len(codeContents) = 2
    /\ Len(assets) = 4
    /\ htmlContents = <<>>
    /\ output = <<>>

\* C8 as the specification has it: CodeDiff built from text blobs holds the
\* lines CodeDiff built from files of the same text holds, and so the same
\* aligned sequence.
C8_BlobEqualsFile ==
    /\ pc \in {"init_to", "details"} => fromlines = readlines(fromfile)
    /\ pc = "details" => tolines = readlines(tofile)
    /\ pc = "fields" =>
           diffs = getDiffDetails(readlines(fromfile), readlines(tofile)).diffs

\* C9 as the specification has it: a pair whose line number on the side of
\* the pane is present and greater than the number of highlighted lines still
\* gets one content line made of its raw text, whether it is changed or not.
C9_PastTheEndFallsBack ==
    \A n \in 1..Len(codeContents) :
        LET c == codeContents[n]
            side == IF c.isLeft THEN 1 ELSE 2
        IN  \A k \in 1..Len(diffs) :
                diffs[k][side][1] # NoLineNumber /\ diffs[k][side][1] > Len(c.source) =>
                    /\ Len(c.rows[k]) = 1
                    /\ \/ c.rows[k][1][2] = diffs[k][side][2]
                       \/ \E class \in {"left_diff_change", "left_diff_del",
                                         "right_diff_change", "right_diff_add"} :
                              c.rows[k][1][2] = Span(class, diffs[k][side][2])

\* C10: in every pane, the content _wrap_code yields for a pair whose line
\* number n on the side of the pane is present and at most the number of
\* highlighted lines is the n-th highlighted line (as it is when the pair is
\* unchanged, inside a span of the change when it is changed), whatever the
\* index of the pair; for a pair without a line number on that side it is
\* the raw text of that side inside a span.
C10_ReassociatedByLineNumber ==
    \A n \in 1..Len(codeContents) :
        LET c == codeContents[n]
            side == IF c.isLeft THEN 1 ELSE 2
        IN  /\ c.code = << <<0, <<"<pre>">> >> >> \o Join(c.rows) \o << <<0, <<"\n</pre>">> >> >>
            /\ \A k \in 1..Len(diffs) :
                   LET no == diffs[k][side][1]
                   IN  /\ no # NoLineNumber /\ no <= Len(c.source) =>
                              IF diffs[k][3]
                              THEN \E class \in IF c.isLeft
                                                THEN {"left_diff_change", "left_diff_del"}
                                                ELSE {"right_diff_change", "right_diff_add"} :
                                      c.rows[k] = << <<1, Span(class, c.source[no][2])>> >>
                              ELSE c.rows[k] = << c.source[no] >>
                       /\ no = NoLineNumber =>
                              c.rows[k] = << <<1, Span(IF c.isLeft THEN "left_diff_add"
                                                                  ELSE "right_diff_del",
                                                      diffs[k][side][2])>> >>

\* a rendered left pane in which a pair sits at an index other than its left
\* line number, with its highlighted line in the stream, and another pair has
\* no left line
C10_Witness ==
    /\ Len(codeContents) >= 1
    /\ \E k \in 1..Len(diffs) :
           /\ diffs[k][1][1] # NoLineNumber
           /\ diffs[k][1][1] # k
           /\ diffs[k][1][1] <= Len(codeContents[1].source)
           /\ codeContents[1].rows[k] # <<>>
    /\ \E k \in 1..Len(diffs) : diffs[k][1][1] = NoLineNumber

====
